---- MODULE Spec2Model ----
(***************************************************************************)
(* A model of qproject: the ownership-validated recursive copy             *)
(* (projects.copytree_owner, utils.copytree_owner), the workspace          *)
(* preparation (projects.prepare, qproject.prepare), the workflow          *)
(* supervisor (projects.run / run_workflow, qproject.run) and the command  *)
(* line (commandline._run, commandline.commit_command).                    *)
(*                                                                         *)
(* Each component has its own specification over the shared variables:     *)
(*   SpecCopy     one copytree_owner call on a source tree                 *)
(*   SpecPrepare  prepare calls of two callers on one target               *)
(*   SpecRun      one run call, its child processes and a SIGTERM          *)
(*   SpecCli      qproject processes started one after another on one      *)
(*                workspace in the foreground (commandline.main)           *)
(*   SpecDaemon   launches of a daemon on one pidfile path, through        *)
(*                `qproject run --daemon` or utils.daemonize itself        *)
(*   SpecShared   invocations of prepare and run that share one workspace  *)
(*   SpecDeliver  one commit command and other processes writing below the *)
(*                dropbox                                                  *)
(*   SpecClone    one clone_workflows call                                 *)
(***************************************************************************)
EXTENDS Integers, Sequences, FiniteSets, TLC

VARIABLES
    \* ---- copytree_owner ----
    tree,       \* the source tree: relative path -> [kind, owner, towner]
    policy,     \* "Abort": projects.copytree_owner, "Skip": utils.copytree_owner
    cpc,        \* position of the copy: "walk", "files", "done", "raised"
    cexc,       \* the exception the copy raised, "" when none
    stack,      \* os.fwalk's pending directories: a stack of sets of siblings
    cur,        \* the directory os.fwalk yielded last (root)
    filesLeft,  \* the names of `files` the for loop has not reached yet
    destDirs,   \* directories of the destination (relative paths)
    destFiles,  \* files of the destination: relative path -> content
    followed,   \* symbolic links that were opened through to their target
    \* ---- prepare ----
    fs,         \* the file system at the workspace: path -> "absent", "dir", "file"
    acl,        \* the directories setfacl was run on
    ppc,        \* per caller: position in prepare
    pidx,       \* per caller: index of the directory the mkdir loop is at
    pargs,      \* per caller: the arguments [force_create, user]
    pexc,       \* per caller: the exception prepare raised
    pret,       \* per caller: the value prepare returned
    pseen,      \* per caller: what the workspace was when prepare was called
    mutators,   \* the callers whose prepare changed the file system or an ACL
    \* ---- run ----
    rmod,       \* the module whose run is called: "projects" or "qproject"
    wfs,        \* the workflows argument: a list of workflow names
    ruser,      \* the user argument, "None" when not given
    srcdir,     \* per workflow: src/<workflow> is "missing", "noexec" or "ok"
    config,     \* the workflows whose run/<workflow>.json exists
    rpc,        \* position of the supervisor in run
    ridx,       \* index in wfs of the workflow the loop is at
    rexc,       \* the exception run raised, "" when none
    handler,    \* the SIGTERM disposition of the supervisor process
    got_sigterm,\* qproject.run: the list the handler appends to is not empty
    child,      \* the child process of the last Popen
    spawned,    \* the workflows a child was spawned for, in order
    kills,      \* the kill requests issued
    sig,        \* the SIGTERM delivered to the supervisor, if any
    \* ---- command line ----
    args,       \* the arguments of the qproject process that is running
    pos,        \* its position, "shell" when no qproject process is running
    retcode,    \* the exit code of the last qproject process, -1 before any
    workspace,  \* the target: "missing", or the state of its src directory
    lastRun,    \* the workflow run of the workspace: never, running, ok, failed
    dropboxDir, \* whether dropbox/<barcode> exists
    deliveries, \* the values of lastRun at which a delivery was attempted
    archived,   \* whether archive_result has run
    \* ---- daemonize ----
    pidfile,    \* the file at the pidfile path: [owner, proc], NoPidfile if none
    dvia,       \* per launcher: entered by "main" (--daemon) or "daemonize"
    dpc,        \* per launcher: position of the process that is executing
    forks,      \* per launcher: the number of successful os.fork calls
    sid,        \* per launcher: os.setsid was called
    status,     \* per launcher: exit status of parent, child and daemon
    atCall,     \* per launcher: the pidfile existed when daemonize was called
    registered, \* per launcher: remove_pid is registered with atexit
    funcOutcome,\* per launcher: how func ended, "" while it has not
    dlog,       \* per launcher: the messages the detached process logged
    \* ---- invocations sharing one workspace ----
    wsExists,   \* the workspace at the shared target exists
    ipc,        \* per invocation: its position
    iforce,     \* per invocation: the force_create it passes to prepare
    ichild,     \* per invocation: the child process of its run_workflow
    iexc,       \* per invocation: the exception it ended with, "" when none
    \* ---- delivery into the dropbox ----
    dbox,       \* dropbox/<barcode>: "absent", "made" by commit, or "foreign"
    dfile,      \* per name: the file results/<name> below it
    cmsrc,      \* the names of the files in the result directory
    cmleft,     \* the files the copy has not reached yet
    cmpc,       \* position of the commit command
    cmexc,      \* the exception it ended with, "" when none
    \* ---- clone_workflows ----
    repos,      \* the workflows argument: a list of repository names
    srcdirs,    \* the names that exist below workdir.src
    cloned,     \* the repositories git clone was run for, in order
    clidx,      \* index in repos of the workflow the loop is at
    clpc,       \* position of clone_workflows
    clexc       \* the exception it raised, "" when none

copyVars == <<tree, policy, cpc, cexc, stack, cur, filesLeft, destDirs,
              destFiles, followed>>

prepVars == <<fs, acl, ppc, pidx, pargs, pexc, pret, pseen, mutators>>

runVars == <<rmod, wfs, ruser, srcdir, config, rpc, ridx, rexc, handler,
             got_sigterm, child, spawned, kills, sig>>

cliVars == <<args, pos, retcode, workspace, lastRun, dropboxDir, deliveries,
             archived>>

daemonVars == <<pidfile, dvia, dpc, forks, sid, status, atCall, registered,
                funcOutcome, dlog>>

sharedVars == <<wsExists, ipc, iforce, ichild, iexc>>

deliverVars == <<dbox, dfile, cmsrc, cmleft, cmpc, cmexc>>

cloneVars == <<repos, srcdirs, cloned, clidx, clpc, clexc>>

vars == <<copyVars, prepVars, runVars, cliVars, daemonVars, sharedVars,
          deliverVars, cloneVars>>

\* What a step of one component leaves alone.
notCopy ==
    <<prepVars, runVars, cliVars, daemonVars,
      sharedVars, deliverVars, cloneVars>>
notPrepare ==
    <<copyVars, runVars, cliVars, daemonVars,
      sharedVars, deliverVars, cloneVars>>
notRun ==
    <<copyVars, prepVars, cliVars, daemonVars,
      sharedVars, deliverVars, cloneVars>>
notCli ==
    <<copyVars, prepVars, runVars, daemonVars,
      sharedVars, deliverVars, cloneVars>>
notDaemon ==
    <<copyVars, prepVars, runVars, cliVars,
      sharedVars, deliverVars, cloneVars>>
notShared ==
    <<copyVars, prepVars, runVars, cliVars,
      daemonVars, deliverVars, cloneVars>>
notDeliver ==
    <<copyVars, prepVars, runVars, cliVars,
      daemonVars, sharedVars, cloneVars>>
notClone ==
    <<copyVars, prepVars, runVars, cliVars,
      daemonVars, sharedVars, deliverVars>>

-----------------------------------------------------------------------------
(* Bounds and the universe of inputs                                       *)

\* The largest number of entries a source tree holds.
MaxEntries == 3

\* The names an entry of the source tree can have.
Names == {"a", "b"}

\* The uid the copy expects ("U") and any other uid ("O").
UIDs == {"U", "O"}

\* The userid argument of copytree_owner.
userid == "U"

Root == <<>>

Parent(p) == SubSeq(p, 1, Len(p) - 1)

NoTree == [p \in {} |-> [kind |-> "dir", owner |-> "U", towner |-> "U"]]

\* What an entry of the source tree can be.  owner is the uid lstat gives for
\* the entry itself, towner the uid fstat gives for the handle that opening
\* the entry yields: the entry's own for a file or a directory, the target's
\* for a symbolic link.  A "linkf" is a symbolic link to a file outside the
\* tree, a "linkd" a symbolic link to a directory outside the tree.
PlainEntries ==
    {[kind |-> k, owner |-> o, towner |-> o] : k \in {"file", "dir"}, o \in UIDs}

LinkEntries ==
    {[kind |-> k, owner |-> o, towner |-> t] :
        k \in {"linkf"}, o \in UIDs, t \in UIDs}
    \cup {[kind |-> "linkd", owner |-> o, towner |-> o] : o \in UIDs}

TreeEntries == PlainEntries \cup LinkEntries

Extend(t, p, e) == [q \in DOMAIN t \cup {p} |-> IF q = p THEN e ELSE t[q]]

\* The places where one more entry fits: below the root or below a directory.
FreeSlots(t) ==
    {Append(q, n) : q \in {Root} \cup {d \in DOMAIN t : t[d].kind = "dir"},
                    n \in Names} \ DOMAIN t

RECURSIVE TreesUpTo(_)
TreesUpTo(n) ==
    IF n = 0 THEN {NoTree}
    ELSE LET smaller == TreesUpTo(n - 1)
         IN  smaller \cup
             UNION {{Extend(t, p, e) : p \in FreeSlots(t), e \in TreeEntries} :
                    t \in smaller}

SourceTrees == TreesUpTo(MaxEntries)

-----------------------------------------------------------------------------
(* os.fwalk(src), top down, follow_symlinks=False                          *)

Children(t, d) == {p \in DOMAIN t : Parent(p) = d}

\* `dirs`: scandir's entries for which is_dir() holds; is_dir() follows
\* symbolic links, so a link to a directory is listed here.
FwalkDirs(t, d) == {p \in Children(t, d) : t[p].kind \in {"dir", "linkd"}}

\* `files`: every other entry, a link to a file among them.
FwalkFiles(t, d) == {p \in Children(t, d) : t[p].kind \in {"file", "linkf"}}

\* The directories fwalk descends into: those of `dirs` whose opened handle
\* is the entry itself (samestat), which leaves out links to directories.
FwalkDescends(t, d) == {p \in Children(t, d) : t[p].kind = "dir"}

DropEmpty(s) == SelectSeq(s, LAMBDA x : x # {})

\* fwalk after it yielded d: d's own subdirectories come first (depth first),
\* then the remaining siblings.
FwalkPush(s, d) ==
    DropEmpty(<<FwalkDescends(tree, d), Head(s) \ {d}>> \o Tail(s))

\* os.fstat(rootfd).st_uid
RootOwner(d) == IF d = Root THEN "U" ELSE tree[d].towner

\* The content a file handle streams: the file's own, or, for a symbolic
\* link, that of the link's target, since os.open follows links.
HandleContent(f) == IF tree[f].kind = "linkf" THEN "target" ELSE "own"

OpenFollows(f) == IF tree[f].kind = "linkf" THEN {f} ELSE {}

-----------------------------------------------------------------------------
(* projects.copytree_owner: a mismatch raises ValueError                   *)

CopyRaise(e) ==
    /\ cpc' = "raised"
    /\ cexc' = e

\* The for loop asks fwalk for the next directory and checks its owner.
P_NextRoot ==
    /\ policy = "Abort"
    /\ cpc = "walk"
    /\ stack # <<>>
    /\ \E d \in Head(stack) :
        /\ stack' = FwalkPush(stack, d)
        /\ cur' = d
        /\ IF d # Root /\ RootOwner(d) # userid
           THEN /\ CopyRaise("ValueError")
                /\ UNCHANGED filesLeft
           ELSE /\ cpc' = "files"
                /\ filesLeft' = FwalkFiles(tree, d)
                /\ UNCHANGED cexc
    /\ UNCHANGED <<tree, policy, destDirs, destFiles, followed>>
    /\ UNCHANGED notCopy

\* One iteration of `for file in files`.
P_CopyFile ==
    /\ policy = "Abort"
    /\ cpc = "files"
    /\ \E f \in filesLeft :
        /\ followed' = followed \cup OpenFollows(f)
        /\ IF tree[f].towner # userid
           THEN /\ CopyRaise("ValueError")
                /\ UNCHANGED <<filesLeft, destFiles>>
           ELSE IF cur \notin destDirs
           THEN /\ CopyRaise("FileNotFoundError")
                /\ UNCHANGED <<filesLeft, destFiles>>
           ELSE /\ destFiles' = Extend(destFiles, f, HandleContent(f))
                /\ filesLeft' = filesLeft \ {f}
                /\ UNCHANGED <<cpc, cexc>>
    /\ UNCHANGED <<tree, policy, stack, cur, destDirs>>
    /\ UNCHANGED notCopy

\* `for dir in dirs: os.mkdir(os.path.join(local_dest, dir), 0o700)`
P_MakeDirs ==
    /\ policy = "Abort"
    /\ cpc = "files"
    /\ filesLeft = {}
    /\ IF FwalkDirs(tree, cur) = {}
       THEN /\ cpc' = "walk"
            /\ UNCHANGED <<cexc, destDirs>>
       ELSE IF cur \notin destDirs
       THEN /\ CopyRaise("FileNotFoundError")
            /\ UNCHANGED destDirs
       ELSE IF FwalkDirs(tree, cur) \cap destDirs # {}
       THEN /\ CopyRaise("FileExistsError")
            /\ UNCHANGED destDirs
       ELSE /\ destDirs' = destDirs \cup FwalkDirs(tree, cur)
            /\ cpc' = "walk"
            /\ UNCHANGED cexc
    /\ UNCHANGED <<tree, policy, stack, cur, filesLeft, destFiles, followed>>
    /\ UNCHANGED notCopy

\* fwalk is exhausted: the function returns.
P_Return ==
    /\ policy = "Abort"
    /\ cpc = "walk"
    /\ stack = <<>>
    /\ cpc' = "done"
    /\ UNCHANGED <<tree, policy, cexc, stack, cur, filesLeft, destDirs,
                   destFiles, followed>>
    /\ UNCHANGED notCopy

projects_copytree_owner ==
    P_NextRoot \/ P_CopyFile \/ P_MakeDirs \/ P_Return

-----------------------------------------------------------------------------
(* utils.copytree_owner: a mismatch is logged and the loop continues       *)

\* U_NextRoot without the test of root_owner: the files of every directory
\* fwalk yields are looked at.
U_NextRoot_unchecked ==
    /\ policy = "Skip"
    /\ cpc = "walk"
    /\ stack # <<>>
    /\ \E d \in Head(stack) :
        /\ stack' = FwalkPush(stack, d)
        /\ cur' = d
        /\ cpc' = "files"
        /\ filesLeft' = FwalkFiles(tree, d)
    /\ UNCHANGED <<tree, policy, cexc, destDirs, destFiles, followed>>
    /\ UNCHANGED notCopy

U_NextRoot ==
    /\ policy = "Skip"
    /\ cpc = "walk"
    /\ stack # <<>>
    /\ \E d \in Head(stack) :
        /\ stack' = FwalkPush(stack, d)
        /\ cur' = d
        /\ IF d # Root /\ RootOwner(d) # userid
           THEN UNCHANGED <<cpc, filesLeft>>
           ELSE /\ cpc' = "files"
                /\ filesLeft' = FwalkFiles(tree, d)
    /\ UNCHANGED <<tree, policy, cexc, destDirs, destFiles, followed>>
    /\ UNCHANGED notCopy

\* U_CopyFile writing the destination file wherever its directory is
\* missing, as if the open created the directories above the file.
U_CopyFile_makes_parents ==
    /\ policy = "Skip"
    /\ cpc = "files"
    /\ \E f \in filesLeft :
        /\ followed' = followed \cup OpenFollows(f)
        /\ filesLeft' = filesLeft \ {f}
        /\ IF userid # "None" /\ tree[f].towner # userid
           THEN UNCHANGED <<cpc, cexc, destFiles>>
           ELSE /\ destFiles' = Extend(destFiles, f, HandleContent(f))
                /\ UNCHANGED <<cpc, cexc>>
    /\ UNCHANGED <<tree, policy, stack, cur, destDirs>>
    /\ UNCHANGED notCopy

U_CopyFile ==
    /\ policy = "Skip"
    /\ cpc = "files"
    /\ \E f \in filesLeft :
        /\ followed' = followed \cup OpenFollows(f)
        /\ IF userid # "None" /\ tree[f].towner # userid
           THEN /\ filesLeft' = filesLeft \ {f}
                /\ UNCHANGED <<cpc, cexc, destFiles>>
           ELSE IF cur \notin destDirs
           THEN /\ CopyRaise("FileNotFoundError")
                /\ UNCHANGED <<filesLeft, destFiles>>
           ELSE /\ destFiles' = Extend(destFiles, f, HandleContent(f))
                /\ filesLeft' = filesLeft \ {f}
                /\ UNCHANGED <<cpc, cexc>>
    /\ UNCHANGED <<tree, policy, stack, cur, destDirs>>
    /\ UNCHANGED notCopy

U_MakeDirs ==
    /\ policy = "Skip"
    /\ cpc = "files"
    /\ filesLeft = {}
    /\ IF FwalkDirs(tree, cur) = {}
       THEN /\ cpc' = "walk"
            /\ UNCHANGED <<cexc, destDirs>>
       ELSE IF cur \notin destDirs
       THEN /\ CopyRaise("FileNotFoundError")
            /\ UNCHANGED destDirs
       ELSE IF FwalkDirs(tree, cur) \cap destDirs # {}
       THEN /\ CopyRaise("FileExistsError")
            /\ UNCHANGED destDirs
       ELSE /\ destDirs' = destDirs \cup FwalkDirs(tree, cur)
            /\ cpc' = "walk"
            /\ UNCHANGED cexc
    /\ UNCHANGED <<tree, policy, stack, cur, filesLeft, destFiles, followed>>
    /\ UNCHANGED notCopy

U_Return ==
    /\ policy = "Skip"
    /\ cpc = "walk"
    /\ stack = <<>>
    /\ cpc' = "done"
    /\ UNCHANGED <<tree, policy, cexc, stack, cur, filesLeft, destDirs,
                   destFiles, followed>>
    /\ UNCHANGED notCopy

utils_copytree_owner ==
    U_NextRoot \/ U_CopyFile \/ U_MakeDirs \/ U_Return


-----------------------------------------------------------------------------
(* The copy before its first step                                         *)

\* The state after commit created the destination: it exists and is empty.
CopyIdle ==
    /\ cpc = "walk"
    /\ cexc = ""
    /\ stack = <<{Root}>>
    /\ cur = Root
    /\ filesLeft = {}
    /\ destDirs = {Root}
    /\ destFiles = [p \in {} |-> "own"]
    /\ followed = {}

-----------------------------------------------------------------------------
(* projects.prepare                                                        *)

\* The callers of prepare: two processes, or one process calling twice.
Callers == {"c1", "c2"}

\* The largest number of expected entries that are not directories in a
\* workspace whose root exists before the first call.
MaxMissing == 2

\* The target argument: one path, whose parent directory exists.
target == <<"ws">>

\* Workdir._fields
WorkdirFields == <<"base", "data", "src", "var", "result", "run", "ref", "logs">>

\* workdir = Workdir(*([target] + [os.path.join(target, f) for f in _fields[1:]]))
Workdir(t) ==
    [i \in 1..Len(WorkdirFields) |->
        IF i = 1 THEN t ELSE Append(t, WorkdirFields[i])]

WorkdirPaths == {Workdir(target)[i] : i \in 1..Len(WorkdirFields)}

\* os.path.exists
Exists(path) == fs[path] # "absent"

\* os.path.isdir
IsDir(path) == fs[path] = "dir"

WellFormed == \A path \in WorkdirPaths : IsDir(path)

NothingThere == \A path \in WorkdirPaths : ~Exists(path)

\* The first directory of workdir that is not a directory, 0 when all are.
RECURSIVE FirstNotDir(_)
FirstNotDir(i) ==
    IF i > Len(WorkdirFields) THEN 0
    ELSE IF ~IsDir(Workdir(target)[i]) THEN i
    ELSE FirstNotDir(i + 1)

NoExc == [type |-> "", args |-> <<>>]

NoArgs == [force_create |-> TRUE, user |-> "None"]

PrepRaise(c, type, eargs) ==
    /\ ppc' = [ppc EXCEPT ![c] = "raised"]
    /\ pexc' = [pexc EXCEPT ![c] = [type |-> type, args |-> eargs]]

\* prepare_if with the test on force_create lost: an existing target is
\* taken for a workspace to reuse.
prepare_if_reuses(c) ==
    /\ ppc[c] = "idle"
    /\ \E force_create \in BOOLEAN, user \in {"None", "user"} :
        /\ pargs' = [pargs EXCEPT ![c] =
                        [force_create |-> force_create, user |-> user]]
        /\ pseen' = [pseen EXCEPT ![c] =
                        [exists |-> Exists(target), wellformed |-> WellFormed]]
        /\ ppc' = [ppc EXCEPT ![c] = "elif"]
        /\ UNCHANGED pexc
    /\ UNCHANGED <<fs, acl, pidx, pret, mutators>>
    /\ UNCHANGED notPrepare

\* prepare is entered and evaluates `os.path.exists(target) and force_create`.
prepare_if(c) ==
    /\ ppc[c] = "idle"
    /\ \E force_create \in BOOLEAN, user \in {"None", "user"} :
        /\ pargs' = [pargs EXCEPT ![c] =
                        [force_create |-> force_create, user |-> user]]
        /\ pseen' = [pseen EXCEPT ![c] =
                        [exists |-> Exists(target), wellformed |-> WellFormed]]
        /\ IF Exists(target) /\ force_create
           THEN PrepRaise(c, "ValueError", <<"Target directory exists.">>)
           ELSE /\ ppc' = [ppc EXCEPT ![c] = "elif"]
                /\ UNCHANGED pexc
    /\ UNCHANGED <<fs, acl, pidx, pret, mutators>>
    /\ UNCHANGED notPrepare

\* prepare_elif without the else branch: the directories are always made.
prepare_elif_always_makes(c) ==
    /\ ppc[c] = "elif"
    /\ ppc' = [ppc EXCEPT ![c] = "mkdir"]
    /\ pidx' = [pidx EXCEPT ![c] = 1]
    /\ UNCHANGED <<fs, acl, pargs, pexc, pret, pseen, mutators>>
    /\ UNCHANGED notPrepare

\* `elif not os.path.exists(target)`: a second look at the file system.
prepare_elif(c) ==
    /\ ppc[c] = "elif"
    /\ ppc' = [ppc EXCEPT ![c] = IF ~Exists(target) THEN "mkdir" ELSE "validate"]
    /\ pidx' = [pidx EXCEPT ![c] = 1]
    /\ UNCHANGED <<fs, acl, pargs, pexc, pret, pseen, mutators>>
    /\ UNCHANGED notPrepare

\* What utils.add_acl(directory, user, 'rwx', group=None) can do: setfacl
\* runs, and a CalledProcessError of it is logged ("returns"), or the call
\* raises another error, such as the OSError of a missing setfacl ("raises").
add_acl == {"returns", "raises"}

prepare_next(c) ==
    IF pidx[c] = Len(WorkdirFields)
    THEN /\ ppc' = [ppc EXCEPT ![c] = "done"]
         /\ pret' = [pret EXCEPT ![c] = Workdir(target)]
         /\ UNCHANGED pidx
    ELSE /\ pidx' = [pidx EXCEPT ![c] = pidx[c] + 1]
         /\ UNCHANGED <<ppc, pret>>

\* One iteration of `for directory in workdir`: os.mkdir(directory, 0o700)
\* and, with a user, utils.add_acl.  mkdir fails when the path exists, when
\* its parent does not, or for a reason of the environment (OSError).
prepare_mkdir(c) ==
    /\ ppc[c] = "mkdir"
    /\ LET directory == Workdir(target)[pidx[c]] IN
       \/ /\ Exists(directory)
          /\ PrepRaise(c, "FileExistsError", <<directory>>)
          /\ UNCHANGED <<fs, acl, pidx, pret, mutators>>
       \/ /\ ~Exists(directory)
          /\ directory # target /\ ~IsDir(target)
          /\ PrepRaise(c, "FileNotFoundError", <<directory>>)
          /\ UNCHANGED <<fs, acl, pidx, pret, mutators>>
       \/ /\ ~Exists(directory)
          /\ PrepRaise(c, "OSError", <<directory>>)
          /\ UNCHANGED <<fs, acl, pidx, pret, mutators>>
       \/ /\ ~Exists(directory)
          /\ directory = target \/ IsDir(target)
          /\ fs' = [fs EXCEPT ![directory] = "dir"]
          /\ mutators' = mutators \cup {c}
          /\ IF pargs[c].user = "None"
             THEN /\ prepare_next(c)
                  /\ UNCHANGED <<acl, pexc>>
             ELSE \E outcome \in add_acl :
                    /\ acl' = IF outcome = "returns" THEN acl \cup {directory}
                              ELSE acl
                    /\ IF outcome = "raises"
                       THEN /\ PrepRaise(c, "OSError", <<"setfacl">>)
                            /\ UNCHANGED <<pidx, pret>>
                       ELSE /\ prepare_next(c)
                            /\ UNCHANGED pexc
    /\ UNCHANGED <<pargs, pseen>>
    /\ UNCHANGED notPrepare

\* `for directory in workdir: assert os.path.isdir(directory)` and the
\* return.  The loop only reads, and the directories are created in the
\* order it reads them, so it sees what one look at the file system sees.
prepare_else(c) ==
    /\ ppc[c] = "validate"
    /\ IF FirstNotDir(1) = 0
       THEN /\ ppc' = [ppc EXCEPT ![c] = "done"]
            /\ pret' = [pret EXCEPT ![c] = Workdir(target)]
            /\ UNCHANGED <<pexc, pidx>>
       ELSE /\ PrepRaise(c, "AssertionError", <<>>)
            /\ pidx' = [pidx EXCEPT ![c] = FirstNotDir(1)]
            /\ UNCHANGED pret
    /\ UNCHANGED <<fs, acl, pargs, pseen, mutators>>
    /\ UNCHANGED notPrepare

prepare(c) ==
    prepare_if(c) \/ prepare_elif(c) \/ prepare_mkdir(c) \/ prepare_else(c)


-----------------------------------------------------------------------------
(* The supervisor: projects.run / run_workflow and qproject.run            *)

\* The largest number of workflows in the workflows argument.
MaxWorkflows == 2

\* The names of the workflows below src.
Workflows == {"w1", "w2"}

\* The exit codes of a workflow that ends on its own.
ExitCodes == {0, 3}

RECURSIVE ListsUpTo(_)
ListsUpTo(n) ==
    IF n = 0 THEN {<<>>}
    ELSE LET shorter == ListsUpTo(n - 1)
         IN  shorter \cup {Append(l, w) : l \in shorter, w \in Workflows}

NoChild == [wf |-> "", sudo |-> FALSE, state |-> "none", code |-> 0]

NoSig == [at |-> "", handler |-> "", child |-> ""]

\* sudo = ['sudo', '-u', user] if user else []
Sudo == ruser # "None"

RunIdle ==
    /\ rpc = "check"
    /\ ridx = 1
    /\ rexc = ""
    /\ handler = "default"
    /\ got_sigterm = FALSE
    /\ child = NoChild
    /\ spawned = <<>>
    /\ kills = <<>>
    /\ sig = NoSig

NoRun ==
    /\ rmod = "projects"
    /\ wfs = <<>>
    /\ ruser = "None"
    /\ srcdir = [w \in Workflows |-> "missing"]
    /\ config = {}
    /\ RunIdle

RunRaise(e) ==
    /\ rpc' = "raised"
    /\ rexc' = e

\* The for loop of run goes to the next workflow, or run returns.
RunLoop ==
    IF ridx < Len(wfs)
    THEN /\ ridx' = ridx + 1
         /\ rpc' = "check"
    ELSE /\ rpc' = "returned"
         /\ UNCHANGED ridx

\* run called with an empty list: the for loop has nothing to do.
run_empty ==
    /\ rpc = "check"
    /\ wfs = <<>>
    /\ rpc' = "returned"
    /\ UNCHANGED <<rmod, wfs, ruser, srcdir, config, ridx, rexc, handler,
                   got_sigterm, child, spawned, kills, sig>>
    /\ UNCHANGED notRun

\* run_workflow up to signal.signal: the two existence checks, the copy of
\* the config file with its add_acl, and the installation of the handler.
run_workflow_check ==
    /\ rmod = "projects"
    /\ rpc = "check"
    /\ wfs # <<>>
    /\ LET workflow == wfs[ridx] IN
       IF srcdir[workflow] = "missing"
       THEN /\ RunRaise("ValueError")
            /\ UNCHANGED handler
       ELSE IF srcdir[workflow] = "noexec"
       THEN /\ RunRaise("ValueError")
            /\ UNCHANGED handler
       ELSE \E outcome \in add_acl :
            IF workflow \in config /\ Sudo /\ outcome = "raises"
            THEN /\ RunRaise("OSError")
                 /\ UNCHANGED handler
            ELSE /\ handler' = "sigterm_handler"
                 /\ rpc' = "popen"
                 /\ UNCHANGED rexc
    /\ UNCHANGED <<rmod, wfs, ruser, srcdir, config, ridx, got_sigterm, child,
                   spawned, kills, sig>>
    /\ UNCHANGED notRun

\* process = subprocess.Popen(sudo + ['./qbicrun'], cwd=workflow_dir)
run_workflow_popen ==
    /\ rmod = "projects"
    /\ rpc = "popen"
    /\ \/ /\ child' = [wf |-> wfs[ridx], sudo |-> Sudo, state |-> "running",
                       code |-> 0]
          /\ spawned' = Append(spawned, wfs[ridx])
          /\ rpc' = "spawned"
          /\ UNCHANGED rexc
       \/ /\ RunRaise("OSError")
          /\ UNCHANGED <<child, spawned>>
    /\ UNCHANGED <<rmod, wfs, ruser, srcdir, config, ridx, handler,
                   got_sigterm, kills, sig>>
    /\ UNCHANGED notRun

\* The try block is entered and process.wait() blocks.
run_workflow_wait ==
    /\ rmod = "projects"
    /\ rpc = "spawned"
    /\ rpc' = "wait"
    /\ UNCHANGED <<rmod, wfs, ruser, srcdir, config, ridx, rexc, handler,
                   got_sigterm, child, spawned, kills, sig>>
    /\ UNCHANGED notRun

\* run_workflow_returncode without the wait: the return code is looked at
\* while the child may still run.
run_workflow_returncode_unwaited ==
    /\ rmod = "projects"
    /\ rpc = "wait"
    /\ IF child.code # 0
       THEN /\ RunRaise("RuntimeError")
            /\ UNCHANGED ridx
       ELSE /\ RunLoop
            /\ UNCHANGED rexc
    /\ UNCHANGED <<rmod, wfs, ruser, srcdir, config, handler, got_sigterm,
                   child, spawned, kills, sig>>
    /\ UNCHANGED notRun

\* run_workflow_returncode without `if process.returncode`: the loop of run
\* goes on whatever the exit code is.
run_workflow_returncode_ignored ==
    /\ rmod = "projects"
    /\ rpc = "wait"
    /\ child.state = "exited"
    /\ RunLoop
    /\ UNCHANGED <<rmod, wfs, ruser, srcdir, config, rexc, handler,
                   got_sigterm, child, spawned, kills, sig>>
    /\ UNCHANGED notRun

\* process.wait() returns: the child has exited; `if process.returncode`.
run_workflow_returncode ==
    /\ rmod = "projects"
    /\ rpc = "wait"
    /\ child.state = "exited"
    /\ IF child.code # 0
       THEN /\ RunRaise("RuntimeError")
            /\ UNCHANGED ridx
       ELSE /\ RunLoop
            /\ UNCHANGED rexc
    /\ UNCHANGED <<rmod, wfs, ruser, srcdir, config, handler, got_sigterm,
                   child, spawned, kills, sig>>
    /\ UNCHANGED notRun

\* `except SystemExit`: subprocess.check_call(sudo + ["kill", str(pid)]),
\* whose failure is logged, and `raise`.
run_workflow_kill ==
    /\ rmod = "projects"
    /\ rpc = "kill"
    /\ \E ok \in BOOLEAN :
        kills' = Append(kills, [pid |-> Len(spawned), sudo |-> Sudo,
                                ok |-> ok, child |-> child.state,
                                waiting |-> TRUE])
    /\ rpc' = "exited"
    /\ UNCHANGED <<rmod, wfs, ruser, srcdir, config, ridx, rexc, handler,
                   got_sigterm, child, spawned, sig>>
    /\ UNCHANGED notRun

projects_run ==
    \/ run_workflow_check
    \/ run_workflow_popen
    \/ run_workflow_wait
    \/ run_workflow_returncode
    \/ run_workflow_kill

\* qproject.run: the two existence checks of one workflow.
qproject_run_check ==
    /\ rmod = "qproject"
    /\ rpc = "check"
    /\ wfs # <<>>
    /\ IF srcdir[wfs[ridx]] \in {"missing", "noexec"}
       THEN RunRaise("ValueError")
       ELSE /\ rpc' = "popen"
            /\ UNCHANGED rexc
    /\ UNCHANGED <<rmod, wfs, ruser, srcdir, config, ridx, handler,
                   got_sigterm, child, spawned, kills, sig>>
    /\ UNCHANGED notRun

\* process = subprocess.Popen(sudo + [executable])
qproject_run_popen ==
    /\ rmod = "qproject"
    /\ rpc = "popen"
    /\ \/ /\ child' = [wf |-> wfs[ridx], sudo |-> Sudo, state |-> "running",
                       code |-> 0]
          /\ spawned' = Append(spawned, wfs[ridx])
          /\ rpc' = "spawned"
          /\ UNCHANGED rexc
       \/ /\ RunRaise("OSError")
          /\ UNCHANGED <<child, spawned>>
    /\ UNCHANGED <<rmod, wfs, ruser, srcdir, config, ridx, handler,
                   got_sigterm, kills, sig>>
    /\ UNCHANGED notRun

\* got_sigterm = [], signal.signal(SIGTERM, sigterm_handler), and
\* process.wait() blocks.  Until signal.signal has run, a handler of the
\* previous iteration appends to the previous list.
qproject_run_wait ==
    /\ rmod = "qproject"
    /\ rpc = "spawned"
    /\ got_sigterm' = FALSE
    /\ handler' = "sigterm_handler"
    /\ rpc' = "wait"
    /\ UNCHANGED <<rmod, wfs, ruser, srcdir, config, ridx, rexc, child,
                   spawned, kills, sig>>
    /\ UNCHANGED notRun

\* process.wait() returns: the child has exited.  `if got_sigterm` leads to
\* the kill, otherwise `if process.returncode`.
qproject_run_returncode ==
    /\ rmod = "qproject"
    /\ rpc = "wait"
    /\ child.state = "exited"
    /\ IF got_sigterm
       THEN /\ rpc' = "kill"
            /\ UNCHANGED <<ridx, rexc>>
       ELSE IF child.code # 0
       THEN /\ RunRaise("RuntimeError")
            /\ UNCHANGED ridx
       ELSE /\ RunLoop
            /\ UNCHANGED rexc
    /\ UNCHANGED <<rmod, wfs, ruser, srcdir, config, handler, got_sigterm,
                   child, spawned, kills, sig>>
    /\ UNCHANGED notRun

\* subprocess.check_call(sudo + ["kill", str(process.pid)]), whose failure
\* is logged, and `raise SystemExit()`.
qproject_run_kill ==
    /\ rmod = "qproject"
    /\ rpc = "kill"
    /\ \E ok \in BOOLEAN :
        kills' = Append(kills, [pid |-> Len(spawned), sudo |-> Sudo,
                                ok |-> ok, child |-> child.state,
                                waiting |-> FALSE])
    /\ rpc' = "exited"
    /\ UNCHANGED <<rmod, wfs, ruser, srcdir, config, ridx, rexc, handler,
                   got_sigterm, child, spawned, sig>>
    /\ UNCHANGED notRun

qproject_run ==
    \/ qproject_run_check
    \/ qproject_run_popen
    \/ qproject_run_wait
    \/ qproject_run_returncode
    \/ qproject_run_kill

\* The workflow process ends on its own.
child_exit ==
    /\ child.state = "running"
    /\ \E code \in ExitCodes :
        child' = [child EXCEPT !.state = "exited", !.code = code]
    /\ UNCHANGED <<rmod, wfs, ruser, srcdir, config, rpc, ridx, rexc, handler,
                   got_sigterm, spawned, kills, sig>>
    /\ UNCHANGED notRun

RunEnded == rpc \in {"returned", "raised", "exited", "terminated"}

\* One SIGTERM is delivered to the supervisor process.  Under the default
\* disposition it ends the process.  The handler of projects.run_workflow
\* calls sys.exit: the SystemExit is raised where the main thread is, which
\* is inside the try block only while process.wait() blocks.  The handler of
\* qproject.run appends to got_sigterm and the interrupted call resumes.
sigterm ==
    /\ sig = NoSig
    /\ rpc \notin {"exited", "terminated"}
    /\ sig' = [at |-> rpc, handler |-> handler, child |-> child.state]
    /\ IF handler = "default"
       THEN /\ rpc' = "terminated"
            /\ UNCHANGED got_sigterm
       ELSE IF rmod = "projects"
       THEN /\ rpc' = IF rpc = "wait" THEN "kill" ELSE "exited"
            /\ UNCHANGED got_sigterm
       ELSE /\ got_sigterm' = TRUE
            /\ UNCHANGED rpc
    /\ UNCHANGED <<rmod, wfs, ruser, srcdir, config, ridx, rexc, handler,
                   child, spawned, kills>>
    /\ UNCHANGED notRun


-----------------------------------------------------------------------------
(* commandline.main and its commands, in the foreground.  projects.Workflow *)
(* is not part of the sources: its methods are modelled from the           *)
(* specification (Workflow_create, Workflow_run, Workflow_archive_result,  *)
(* Workflow_commit).                                                       *)

NoCliArgs ==
    [command |-> "", dropbox |-> FALSE, barcode |-> FALSE, user |-> FALSE,
     cleanup |-> FALSE]

\* parse_args: the command and the options the commands read (--daemon and
\* --workflow not given).
CliArgs ==
    [command : {"create", "run", "commit"}, dropbox : BOOLEAN,
     barcode : BOOLEAN, user : BOOLEAN, cleanup : BOOLEAN]

\* validate_args raises ValueError.
validate_args(a) ==
    \/ a.dropbox /\ ~a.barcode
    \/ a.dropbox /\ ~a.user
    \/ a.command = "commit" /\ ~a.dropbox

\* main_exit with retcode never set to 1: every process exits with 0.
main_exit_zero(code) ==
    /\ pos' = "shell"
    /\ retcode' = 0

\* `finally: sys.exit(retcode)`
main_exit(code) ==
    /\ pos' = "shell"
    /\ retcode' = code

\* main up to the dispatch: parse_args, validate_args.
main ==
    /\ pos = "shell"
    /\ \E a \in CliArgs :
        /\ args' = a
        /\ IF validate_args(a)
           THEN main_exit(1)
           ELSE /\ pos' = a.command
                /\ UNCHANGED retcode
    /\ UNCHANGED <<workspace, lastRun, dropboxDir, deliveries, archived>>
    /\ UNCHANGED notCli

\* workflow.create: prepare with force_create; clone and write_config leave
\* src empty, or holding a workflow with or without its executable.
Workflow_create ==
    IF workspace # "missing"
    THEN /\ main_exit(1)
         /\ UNCHANGED <<workspace, lastRun, archived>>
    ELSE /\ workspace' \in {"empty", "noexec", "ok"}
         /\ lastRun' = "never"
         /\ archived' = FALSE
         /\ main_exit(0)

create_command ==
    /\ pos = "create"
    /\ Workflow_create
    /\ UNCHANGED <<args, dropboxDir, deliveries>>
    /\ UNCHANGED notCli

\* workflow.run(user): the pre-flight check of the executable and the spawn.
Workflow_run ==
    IF workspace # "ok"
    THEN /\ main_exit(1)
         /\ UNCHANGED lastRun
    ELSE /\ lastRun' = "running"
         /\ pos' = "wait"
         /\ UNCHANGED retcode

\* run_command and _run up to popen.wait(): the checks of dirs.src, then
\* workflow.run.
run_command ==
    /\ pos = "run"
    /\ IF workspace = "missing"
       THEN /\ main_exit(1)
            /\ UNCHANGED lastRun
       ELSE IF workspace = "empty"
       THEN /\ main_exit(1)
            /\ UNCHANGED lastRun
       ELSE Workflow_run
    /\ UNCHANGED <<args, workspace, dropboxDir, deliveries, archived>>
    /\ UNCHANGED notCli

\* workflow.archive_result(): packs the results into the archive.
Workflow_archive_result == archived' = TRUE

\* _run from popen.wait() on: `if popen.returncode` raises RuntimeError,
\* otherwise the result is archived and main exits with 0.
_run ==
    /\ pos = "wait"
    /\ \E returncode \in ExitCodes :
        IF returncode # 0
        THEN /\ lastRun' = "failed"
             /\ main_exit(1)
             /\ UNCHANGED archived
        ELSE /\ lastRun' = "ok"
             /\ Workflow_archive_result
             /\ main_exit(0)
    /\ UNCHANGED <<args, workspace, dropboxDir, deliveries>>
    /\ UNCHANGED notCli

\* workflow.commit(dropbox, user, umask), as projects.commit: the user is
\* looked up, the dropbox directory is created, and result and logs are
\* copied into it by copytree_owner, which raises on a missing source or on
\* an entry of another owner.
Workflow_commit(outcome) ==
    IF outcome = "KeyError"
    THEN /\ main_exit(1)
         /\ UNCHANGED <<workspace, lastRun, dropboxDir, deliveries, archived>>
    ELSE /\ deliveries' = deliveries \cup {lastRun}
         /\ dropboxDir' = TRUE
         /\ IF workspace = "missing" \/ outcome = "ValueError"
            THEN /\ main_exit(1)
                 /\ UNCHANGED <<workspace, lastRun, archived>>
            ELSE /\ main_exit(0)
                 /\ IF args.cleanup
                    THEN /\ workspace' = "missing"
                         /\ lastRun' = "never"
                         /\ archived' = FALSE
                    ELSE UNCHANGED <<workspace, lastRun, archived>>

\* commit_command: the dropbox directory must not exist; then
\* workflow.commit and, with --cleanup, shutil.rmtree of the workspace.
commit_command ==
    /\ pos = "commit"
    /\ IF dropboxDir
       THEN /\ main_exit(1)
            /\ UNCHANGED <<workspace, lastRun, dropboxDir, deliveries, archived>>
       ELSE \E outcome \in {"KeyError", "ValueError", "copied"} :
                Workflow_commit(outcome)
    /\ UNCHANGED args
    /\ UNCHANGED notCli

\* The dropbox handler takes a delivered directory away.
dropbox_collect ==
    /\ pos = "shell"
    /\ dropboxDir
    /\ dropboxDir' = FALSE
    /\ UNCHANGED <<args, pos, retcode, workspace, lastRun, deliveries, archived>>
    /\ UNCHANGED notCli

NoCli ==
    /\ args = NoCliArgs
    /\ pos = "shell"
    /\ retcode = -1
    /\ workspace = "missing"
    /\ lastRun = "never"
    /\ dropboxDir = FALSE
    /\ deliveries = {}
    /\ archived = FALSE


-----------------------------------------------------------------------------
(* utils.daemonize and utils.write_pidfile.  A launcher is one invocation:  *)
(* its parent process, the child of the first fork and the daemon, the     *)
(* child of the second fork.  os._exit(0) follows the fork in the forking  *)
(* process at once and is part of the fork step.                           *)

Launchers == {"d1", "d2"}

Procs == {"parent", "child", "daemon"}

\* Exit status of a process: NotCreated, Running, or the code it exited with.
NotCreated == -2
Running == -1

NoPidfile == [owner |-> "", proc |-> ""]

\* A pidfile left behind by a process that is none of the launchers.
StalePidfile == [owner |-> "other", proc |-> "daemon"]

\* The process of launcher l that is executing.
Proc(l) == IF forks[l] = 0 THEN "parent"
           ELSE IF forks[l] = 1 THEN "child" ELSE "daemon"

\* The process exits: the atexit handlers run (remove_pid, when it was
\* registered, removes whatever is at the pidfile path).
ProcExit(l, code) ==
    /\ status' = [status EXCEPT ![l][Proc(l)] = code]
    /\ dpc' = [dpc EXCEPT ![l] = "exited"]
    /\ pidfile' = IF registered[l] THEN NoPidfile ELSE pidfile

\* `qproject run --daemon --pidfile P`: main, validate_args (the pidfile
\* must not exist) and run_command up to the call of utils.daemonize.
main_daemon(l) ==
    /\ dpc[l] = "idle"
    /\ dvia' = [dvia EXCEPT ![l] = "main"]
    /\ status' = [status EXCEPT ![l]["parent"] =
                      IF pidfile # NoPidfile THEN 1 ELSE Running]
    /\ dpc' = [dpc EXCEPT ![l] =
                   IF pidfile # NoPidfile THEN "exited" ELSE "fork1"]
    /\ UNCHANGED <<pidfile, forks, sid, atCall, registered, funcOutcome, dlog>>
    /\ UNCHANGED notDaemon

\* A program calls utils.daemonize(func, pidfile, umask) itself.
daemonize_call(l) ==
    /\ dpc[l] = "idle"
    /\ dvia' = [dvia EXCEPT ![l] = "daemonize"]
    /\ status' = [status EXCEPT ![l]["parent"] = Running]
    /\ dpc' = [dpc EXCEPT ![l] = "fork1"]
    /\ UNCHANGED <<pidfile, forks, sid, atCall, registered, funcOutcome, dlog>>
    /\ UNCHANGED notDaemon

\* daemonize up to `if pid: os._exit(0)`: the first os.fork.  OSError leads
\* to sys.exit(1).
daemonize_fork1(l) ==
    /\ dpc[l] = "fork1"
    /\ atCall' = [atCall EXCEPT ![l] = pidfile # NoPidfile]
    /\ \E ok \in BOOLEAN :
        IF ok
        THEN /\ forks' = [forks EXCEPT ![l] = 1]
             /\ status' = [status EXCEPT ![l]["parent"] = 0,
                                         ![l]["child"] = Running]
             /\ dpc' = [dpc EXCEPT ![l] = "setsid"]
             /\ UNCHANGED pidfile
        ELSE /\ ProcExit(l, 1)
             /\ UNCHANGED forks
    /\ UNCHANGED <<dvia, sid, registered, funcOutcome, dlog>>
    /\ UNCHANGED notDaemon

\* os.setsid()
daemonize_setsid(l) ==
    /\ dpc[l] = "setsid"
    /\ sid' = [sid EXCEPT ![l] = TRUE]
    /\ dpc' = [dpc EXCEPT ![l] = "fork2"]
    /\ UNCHANGED <<pidfile, dvia, forks, status, atCall, registered, funcOutcome,
                   dlog>>
    /\ UNCHANGED notDaemon

\* The second os.fork with its `if pid: os._exit(0)`.
daemonize_fork2(l) ==
    /\ dpc[l] = "fork2"
    /\ \E ok \in BOOLEAN :
        IF ok
        THEN /\ forks' = [forks EXCEPT ![l] = 2]
             /\ status' = [status EXCEPT ![l]["child"] = 0,
                                         ![l]["daemon"] = Running]
             /\ dpc' = [dpc EXCEPT ![l] = "pidfile"]
             /\ UNCHANGED pidfile
        ELSE /\ ProcExit(l, 1)
             /\ UNCHANGED forks
    /\ UNCHANGED <<dvia, sid, atCall, registered, funcOutcome, dlog>>
    /\ UNCHANGED notDaemon

\* write_pidfile with open(pidfile, 'xt') creating a file of another kind
\* of open: the file is written whether or not one exists.
write_pidfile_overwrites(l) ==
    /\ pidfile' = [owner |-> l, proc |-> Proc(l)]
    /\ registered' = [registered EXCEPT ![l] = TRUE]
    /\ dpc' = [dpc EXCEPT ![l] = "func"]
    /\ UNCHANGED status

\* write_pidfile with the atexit.register(remove_pid) left out.
write_pidfile_unregistered(l) ==
    IF pidfile # NoPidfile
    THEN /\ ProcExit(l, 1)
         /\ UNCHANGED registered
    ELSE /\ pidfile' = [owner |-> l, proc |-> Proc(l)]
         /\ dpc' = [dpc EXCEPT ![l] = "func"]
         /\ UNCHANGED <<status, registered>>

\* write_pidfile with atexit.register(remove_pid) ahead of the open: the
\* process that fails to create the pidfile removes it when it exits.
write_pidfile_registers_first(l) ==
    IF pidfile # NoPidfile
    THEN /\ status' = [status EXCEPT ![l][Proc(l)] = 1]
         /\ dpc' = [dpc EXCEPT ![l] = "exited"]
         /\ pidfile' = NoPidfile
         /\ registered' = [registered EXCEPT ![l] = TRUE]
    ELSE /\ pidfile' = [owner |-> l, proc |-> Proc(l)]
         /\ registered' = [registered EXCEPT ![l] = TRUE]
         /\ dpc' = [dpc EXCEPT ![l] = "func"]
         /\ UNCHANGED status

\* write_pidfile: open(pidfile, 'xt') fails when the file exists, and the
\* OSError leaves daemonize; otherwise the pid is written, remove_pid is
\* registered, and daemonize goes on to close_open_fds and func.
write_pidfile(l) ==
    IF pidfile # NoPidfile
    THEN /\ ProcExit(l, 1)
         /\ UNCHANGED registered
    ELSE /\ pidfile' = [owner |-> l, proc |-> Proc(l)]
         /\ registered' = [registered EXCEPT ![l] = TRUE]
         /\ dpc' = [dpc EXCEPT ![l] = "func"]
         /\ UNCHANGED status

\* os.umask(umask); write_pidfile(pidfile); close_open_fds()
daemonize_pidfile(l) ==
    /\ dpc[l] = "pidfile"
    /\ write_pidfile(l)
    /\ UNCHANGED <<dvia, forks, sid, atCall, funcOutcome, dlog>>
    /\ UNCHANGED notDaemon

\* func(*args, **kwargs) ends: it returns, raises an Exception, which is
\* caught and logged, or raises SystemExit, which is not caught.
daemonize_func(l) ==
    /\ dpc[l] = "func"
    /\ \E o \in {"returned", "Exception", "SystemExit"} :
        /\ funcOutcome' = [funcOutcome EXCEPT ![l] = o]
        /\ IF o = "SystemExit"
           THEN /\ ProcExit(l, 1)
                /\ UNCHANGED dlog
           ELSE /\ dpc' = [dpc EXCEPT ![l] = "return"]
                /\ dlog' = [dlog EXCEPT ![l] =
                               IF o = "Exception"
                               THEN @ \cup {"Unexpected error. Daemon is stopping"}
                               ELSE @]
                /\ UNCHANGED <<pidfile, status>>
    /\ UNCHANGED <<dvia, forks, sid, atCall, registered>>
    /\ UNCHANGED notDaemon

\* daemonize returns in the detached process: to run_command and main,
\* which logs 'qproject finished succesfully' and exits with retcode 0, or
\* to the program that called it, which ends.
daemonize_return(l) ==
    /\ dpc[l] = "return"
    /\ dlog' = [dlog EXCEPT ![l] =
                   IF dvia[l] = "main"
                   THEN @ \cup {"qproject finished succesfully"}
                   ELSE @]
    /\ ProcExit(l, 0)
    /\ UNCHANGED <<dvia, forks, sid, atCall, registered, funcOutcome>>
    /\ UNCHANGED notDaemon

daemonize(l) ==
    \/ daemonize_fork1(l)
    \/ daemonize_setsid(l)
    \/ daemonize_fork2(l)
    \/ daemonize_pidfile(l)
    \/ daemonize_func(l)
    \/ daemonize_return(l)

DaemonIdle ==
    /\ dvia = [l \in Launchers |-> ""]
    /\ dpc = [l \in Launchers |-> "idle"]
    /\ forks = [l \in Launchers |-> 0]
    /\ sid = [l \in Launchers |-> FALSE]
    /\ status = [l \in Launchers |-> [p \in Procs |-> NotCreated]]
    /\ atCall = [l \in Launchers |-> FALSE]
    /\ registered = [l \in Launchers |-> FALSE]
    /\ funcOutcome = [l \in Launchers |-> ""]
    /\ dlog = [l \in Launchers |-> {}]

NoDaemon ==
    /\ pidfile = NoPidfile
    /\ DaemonIdle


-----------------------------------------------------------------------------
(* Invocations on one workspace: each calls projects.prepare on the shared *)
(* target and then projects.run with one workflow.  prepare is taken as    *)
(* one step here; SpecPrepare has its steps.                               *)

Invocations == {"i1", "i2"}

NoInvocationChild == [state |-> "none", code |-> 0]

\* prepare(target, force_create): ValueError when the target exists and
\* force_create is set, creation when it does not exist, otherwise the
\* existing workspace is returned.
shared_prepare(i) ==
    /\ ipc[i] = "idle"
    /\ \E force_create \in BOOLEAN :
        /\ iforce' = [iforce EXCEPT ![i] = force_create]
        /\ IF wsExists /\ force_create
           THEN /\ ipc' = [ipc EXCEPT ![i] = "raised"]
                /\ iexc' = [iexc EXCEPT ![i] = "ValueError"]
                /\ UNCHANGED wsExists
           ELSE /\ wsExists' = TRUE
                /\ ipc' = [ipc EXCEPT ![i] = "run"]
                /\ UNCHANGED iexc
    /\ UNCHANGED ichild
    /\ UNCHANGED notShared

\* run(workdir, [workflow]) up to process.wait(): run_workflow spawns the
\* child.
shared_run(i) ==
    /\ ipc[i] = "run"
    /\ ichild' = [ichild EXCEPT ![i] = [state |-> "running", code |-> 0]]
    /\ ipc' = [ipc EXCEPT ![i] = "wait"]
    /\ UNCHANGED <<wsExists, iforce, iexc>>
    /\ UNCHANGED notShared

\* The child of invocation i exits.
shared_child_exit(i) ==
    /\ ichild[i].state = "running"
    /\ \E code \in ExitCodes :
        ichild' = [ichild EXCEPT ![i] = [state |-> "exited", code |-> code]]
    /\ UNCHANGED <<wsExists, ipc, iforce, iexc>>
    /\ UNCHANGED notShared

\* process.wait() returns; `if process.returncode` raises RuntimeError.
shared_returncode(i) ==
    /\ ipc[i] = "wait"
    /\ ichild[i].state = "exited"
    /\ IF ichild[i].code # 0
       THEN /\ ipc' = [ipc EXCEPT ![i] = "raised"]
            /\ iexc' = [iexc EXCEPT ![i] = "RuntimeError"]
       ELSE /\ ipc' = [ipc EXCEPT ![i] = "returned"]
            /\ UNCHANGED iexc
    /\ UNCHANGED <<wsExists, iforce, ichild>>
    /\ UNCHANGED notShared

SharedIdle ==
    /\ ipc = [i \in Invocations |-> "idle"]
    /\ iforce = [i \in Invocations |-> TRUE]
    /\ ichild = [i \in Invocations |-> NoInvocationChild]
    /\ iexc = [i \in Invocations |-> ""]

NoShared ==
    /\ wsExists = FALSE
    /\ SharedIdle


-----------------------------------------------------------------------------
(* commit_command, projects.commit and the writes of copytree_owner, with  *)
(* other processes that create entries below the dropbox.                  *)

\* commit_command: `if os.path.exists(dropbox): raise ValueError`.
commit_exists ==
    /\ cmpc = "check"
    /\ IF dbox # "absent"
       THEN /\ cmpc' = "raised"
            /\ cmexc' = "ValueError"
       ELSE /\ cmpc' = "mkdir"
            /\ UNCHANGED cmexc
    /\ UNCHANGED <<dbox, dfile, cmsrc, cmleft>>
    /\ UNCHANGED notDeliver

\* commit: os.mkdir(dest, 0o700) and the two directories below it; OSError
\* is logged and raised again.
commit_mkdir ==
    /\ cmpc = "mkdir"
    /\ IF dbox # "absent"
       THEN /\ cmpc' = "raised"
            /\ cmexc' = "FileExistsError"
            /\ UNCHANGED <<dbox, cmleft>>
       ELSE /\ dbox' = "made"
            /\ cmleft' = cmsrc
            /\ cmpc' = "copy"
            /\ UNCHANGED cmexc
    /\ UNCHANGED <<dfile, cmsrc>>
    /\ UNCHANGED notDeliver

\* copytree_owner: `with open(os.path.join(local_dest, file), 'wb') as fdst`
\* and shutil.copyfileobj, for one file; mode 'wb' creates the file or
\* truncates the one that is there.
commit_copyfile ==
    /\ cmpc = "copy"
    /\ \E f \in cmleft :
        /\ dfile' = [dfile EXCEPT ![f] = "delivered"]
        /\ cmleft' = cmleft \ {f}
    /\ UNCHANGED <<dbox, cmsrc, cmpc, cmexc>>
    /\ UNCHANGED notDeliver

\* copytree_owner and commit return.
commit_return ==
    /\ cmpc = "copy"
    /\ cmleft = {}
    /\ cmpc' = "done"
    /\ UNCHANGED <<dbox, dfile, cmsrc, cmleft, cmexc>>
    /\ UNCHANGED notDeliver

\* Another process creates dropbox/<barcode>.
other_mkdir ==
    /\ dbox = "absent"
    /\ dbox' = "foreign"
    /\ UNCHANGED <<dfile, cmsrc, cmleft, cmpc, cmexc>>
    /\ UNCHANGED notDeliver

\* Another process creates a file below dropbox/<barcode>/results.
other_write ==
    /\ dbox # "absent"
    /\ \E f \in Names :
        /\ dfile[f] = "absent"
        /\ dfile' = [dfile EXCEPT ![f] = "foreign"]
    /\ UNCHANGED <<dbox, cmsrc, cmleft, cmpc, cmexc>>
    /\ UNCHANGED notDeliver

DeliverIdle ==
    /\ dfile = [f \in Names |-> "absent"]
    /\ cmleft = {}
    /\ cmpc = "check"
    /\ cmexc = ""

NoDeliver ==
    /\ dbox = "absent"
    /\ cmsrc = {}
    /\ DeliverIdle


-----------------------------------------------------------------------------
(* projects.clone_workflows and projects.clone                             *)

\* The last components of the repositories a caller can name; "w.3" does
\* not match "^[_a-z-Z0-9]+$".
RepoNames == {"w1", "w2", "w.3"}

\* re.match("^[_a-z-Z0-9]+$", name) is not None
ValidName(name) == name \in {"w1", "w2"}

RECURSIVE RepoListsUpTo(_)
RepoListsUpTo(n) ==
    IF n = 0 THEN {<<>>}
    ELSE LET shorter == RepoListsUpTo(n - 1)
         IN  shorter \cup {Append(l, w) : l \in shorter, w \in RepoNames}

CloneRaise(e) ==
    /\ clpc' = "raised"
    /\ clexc' = e

\* One iteration of `for workflow in workflows`: the test of the name, and
\* clone with its test of the target and its git clone, which can fail.
clone_workflows_next ==
    /\ clpc = "loop"
    /\ clidx <= Len(repos)
    /\ LET name == repos[clidx] IN
       IF ~ValidName(name)
       THEN /\ CloneRaise("ValueError")
            /\ UNCHANGED <<srcdirs, cloned, clidx>>
       ELSE IF name \in srcdirs
       THEN /\ CloneRaise("ValueError")
            /\ UNCHANGED <<srcdirs, cloned, clidx>>
       ELSE \/ /\ cloned' = Append(cloned, name)
               /\ srcdirs' = srcdirs \cup {name}
               /\ clidx' = clidx + 1
               /\ UNCHANGED <<clpc, clexc>>
            \/ /\ CloneRaise("CalledProcessError")
               /\ UNCHANGED <<srcdirs, cloned, clidx>>
    /\ UNCHANGED repos
    /\ UNCHANGED notClone

\* return workflow_dirs
clone_workflows_return ==
    /\ clpc = "loop"
    /\ clidx > Len(repos)
    /\ clpc' = "returned"
    /\ UNCHANGED <<repos, srcdirs, cloned, clidx, clexc>>
    /\ UNCHANGED notClone

CloneIdle ==
    /\ cloned = <<>>
    /\ clidx = 1
    /\ clpc = "loop"
    /\ clexc = ""

NoClone ==
    /\ repos = <<>>
    /\ srcdirs = {}
    /\ CloneIdle

-----------------------------------------------------------------------------
(* The specification of prepare                                            *)

\* A workspace whose root is a directory and in which at most MaxMissing
\* expected entries are missing or are files.
RECURSIVE PartialWorkspaces(_)
PartialWorkspaces(n) ==
    IF n = 0
    THEN {[path \in WorkdirPaths |-> "dir"]}
    ELSE LET fewer == PartialWorkspaces(n - 1)
         IN  fewer \cup
             {[w EXCEPT ![path] = k] :
                 w \in fewer, path \in WorkdirPaths \ {target},
                 k \in {"absent", "file"}}

\* What can be at the target before the first call: nothing, a file, or a
\* workspace, whole or with entries missing.
Workspaces ==
    {[path \in WorkdirPaths |-> "absent"]}
    \cup {[path \in WorkdirPaths |-> IF path = target THEN "file" ELSE "absent"]}
    \cup PartialWorkspaces(MaxMissing)

PrepIdle ==
    /\ acl = {}
    /\ ppc = [c \in Callers |-> "idle"]
    /\ pidx = [c \in Callers |-> 1]
    /\ pargs = [c \in Callers |-> NoArgs]
    /\ pexc = [c \in Callers |-> NoExc]
    /\ pret = [c \in Callers |-> <<>>]
    /\ pseen = [c \in Callers |-> [exists |-> FALSE, wellformed |-> FALSE]]
    /\ mutators = {}

NoWorkspace ==
    /\ fs = [path \in WorkdirPaths |-> "absent"]
    /\ PrepIdle

NoCopy ==
    /\ tree = NoTree
    /\ policy = "Abort"
    /\ CopyIdle

InitPrepare ==
    /\ fs \in Workspaces
    /\ PrepIdle
    /\ NoCopy
    /\ NoRun
    /\ NoCli
    /\ NoDaemon
    /\ NoShared
    /\ NoDeliver
    /\ NoClone

NextPrepare == \E c \in Callers : prepare(c)

SpecPrepare == InitPrepare /\ [][NextPrepare]_vars

-----------------------------------------------------------------------------
(* The specification of one copy                                           *)

InitCopy ==
    /\ tree \in SourceTrees
    /\ policy \in {"Abort", "Skip"}
    /\ CopyIdle
    /\ NoWorkspace
    /\ NoRun
    /\ NoCli
    /\ NoDaemon
    /\ NoShared
    /\ NoDeliver
    /\ NoClone

NextCopy == projects_copytree_owner \/ utils_copytree_owner

SpecCopy == InitCopy /\ [][NextCopy]_vars

-----------------------------------------------------------------------------
(* The specification of one run                                            *)

InitRun ==
    /\ rmod \in {"projects", "qproject"}
    /\ wfs \in ListsUpTo(MaxWorkflows)
    /\ ruser \in {"None", "user"}
    /\ srcdir \in [Workflows -> {"missing", "noexec", "ok"}]
    /\ config \in SUBSET Workflows
    /\ RunIdle
    /\ NoCopy
    /\ NoWorkspace
    /\ NoCli
    /\ NoDaemon
    /\ NoShared
    /\ NoDeliver
    /\ NoClone

NextRun == run_empty \/ projects_run \/ qproject_run \/ child_exit \/ sigterm

SpecRun == InitRun /\ [][NextRun]_vars

-----------------------------------------------------------------------------
(* The specification of the command line                                   *)

InitCli ==
    /\ NoCli
    /\ NoCopy
    /\ NoWorkspace
    /\ NoRun
    /\ NoDaemon
    /\ NoShared
    /\ NoDeliver
    /\ NoClone

NextCli ==
    main \/ create_command \/ run_command \/ _run \/ commit_command
        \/ dropbox_collect

SpecCli == InitCli /\ [][NextCli]_vars

-----------------------------------------------------------------------------
(* The specification of the daemon launches                                *)

InitDaemon ==
    /\ pidfile \in {NoPidfile, StalePidfile}
    /\ DaemonIdle
    /\ NoCopy
    /\ NoWorkspace
    /\ NoRun
    /\ NoCli
    /\ NoShared
    /\ NoDeliver
    /\ NoClone

NextDaemon ==
    \E l \in Launchers : main_daemon(l) \/ daemonize_call(l) \/ daemonize(l)

SpecDaemon == InitDaemon /\ [][NextDaemon]_vars

-----------------------------------------------------------------------------
(* The specification of the invocations sharing a workspace                *)

InitShared ==
    /\ wsExists \in BOOLEAN
    /\ SharedIdle
    /\ NoCopy
    /\ NoWorkspace
    /\ NoRun
    /\ NoCli
    /\ NoDaemon
    /\ NoDeliver
    /\ NoClone

NextShared ==
    \E i \in Invocations :
        \/ shared_prepare(i)
        \/ shared_run(i)
        \/ shared_child_exit(i)
        \/ shared_returncode(i)

SpecShared == InitShared /\ [][NextShared]_vars

-----------------------------------------------------------------------------
(* The specification of the delivery                                       *)

InitDeliver ==
    /\ dbox \in {"absent", "foreign"}
    /\ cmsrc \in SUBSET Names
    /\ DeliverIdle
    /\ NoCopy
    /\ NoWorkspace
    /\ NoRun
    /\ NoCli
    /\ NoDaemon
    /\ NoShared
    /\ NoClone

NextDeliver ==
    \/ commit_exists
    \/ commit_mkdir
    \/ commit_copyfile
    \/ commit_return
    \/ other_mkdir
    \/ other_write

SpecDeliver == InitDeliver /\ [][NextDeliver]_vars

-----------------------------------------------------------------------------
(* The specification of clone_workflows                                    *)

InitClone ==
    /\ repos \in RepoListsUpTo(MaxWorkflows)
    /\ srcdirs \in SUBSET {name \in RepoNames : ValidName(name)}
    /\ CloneIdle
    /\ NoCopy
    /\ NoWorkspace
    /\ NoRun
    /\ NoCli
    /\ NoDaemon
    /\ NoShared
    /\ NoDeliver

NextClone == clone_workflows_next \/ clone_workflows_return

SpecClone == InitClone /\ [][NextClone]_vars

-----------------------------------------------------------------------------
(* Claims about the copy                                                   *)

CopyEnded == cpc \in {"done", "raised"}

\* A tree of regular files and directories only.
PlainTree == \A p \in DOMAIN tree : tree[p].kind \in {"file", "dir"}

\* Every entry's handle is owned by the expected uid.
AllOwned == \A p \in DOMAIN tree : tree[p].towner = userid

\* p and every directory above it below the source root are owned by userid.
OwnedPath(p) == \A i \in 1..Len(p) : tree[SubSeq(p, 1, i)].towner = userid

InDest(p) == p \in destDirs \/ p \in DOMAIN destFiles

DestHoldsNothing == destDirs = {Root} /\ DOMAIN destFiles = {}

\* C1: a copy under the Abort policy (projects.copytree_owner) of a tree of
\* files and directories either returns with every entry of the tree in the
\* destination, when every entry is owned by userid, or raises and leaves
\* the destination without any entry of the tree, when some entry is not.
C1_AbortAllOrNothing ==
    (policy = "Abort" /\ PlainTree /\ CopyEnded) =>
        IF AllOwned
        THEN cpc = "done" /\ \A p \in DOMAIN tree : InDest(p)
        ELSE cpc = "raised" /\ DestHoldsNothing

\* C2: a copy under the Skip policy (utils.copytree_owner) of a tree of files
\* and directories never raises, and when it has returned the destination
\* holds exactly the entries that are owned by userid together with every
\* directory above them.
C2_SkipCopiesOwnedSubtrees ==
    (policy = "Skip" /\ PlainTree) =>
        /\ cpc # "raised"
        /\ cpc = "done" => \A p \in DOMAIN tree : InDest(p) <=> OwnedPath(p)

\* C3: a symbolic link of the source tree that is not owned by userid is
\* never opened through to its target and its target's content is never in
\* the destination, whoever owns the target; and the copy that commit runs
\* does not return when the tree holds such a link to a file of another uid.
C3_ForeignLinkNeverFollowed ==
    \A p \in DOMAIN tree :
        (tree[p].kind = "linkf" /\ tree[p].owner # userid) =>
            /\ p \notin followed
            /\ p \in DOMAIN destFiles => destFiles[p] # "target"
            /\ (policy = "Abort" /\ tree[p].towner # userid) => cpc # "done"

-----------------------------------------------------------------------------
(* Claims about prepare                                                    *)

PrepEnded(c) == ppc[c] \in {"done", "raised"}

\* C7: prepare(target, force_create=True) called on a target that exists
\* raises and changes nothing: no directory is made and no ACL is set by
\* that call, so a second call in sequence leaves the tree as the first
\* call left it.
C7_ForceCreateOnExistingFails ==
    \A c \in Callers :
        (ppc[c] # "idle" /\ pargs[c].force_create /\ pseen[c].exists) =>
            /\ ppc[c] = "raised"
            /\ pexc[c].type = "ValueError"
            /\ c \notin mutators

\* C7's case: the first caller created the whole workspace with
\* force_create=True and the second then called with force_create=True.
C7_Witness ==
    /\ ppc["c1"] = "done" /\ pargs["c1"].force_create /\ "c1" \in mutators
    /\ ppc["c2"] = "raised" /\ pargs["c2"].force_create
    /\ pseen["c2"].wellformed

\* C8: the workspace is never half-created: no step leads from a state where
\* the root and all its directories exist, or none of them does, to a state
\* where only some of them exist.
C8_NeverHalfCreated ==
    [][(NothingThere \/ WellFormed) => (NothingThere \/ WellFormed)']_vars

\* C9: prepare(target, force_create=False) called on a well-formed workspace
\* never raises, makes no directory and sets no ACL, and returns the
\* directory set of the target, the same for every call.
C9_ReuseIsIdempotent ==
    \A c \in Callers :
        (ppc[c] # "idle" /\ ~pargs[c].force_create /\ pseen[c].wellformed) =>
            /\ ppc[c] \in {"elif", "validate", "done"}
            /\ c \notin mutators
            /\ WellFormed
            /\ ppc[c] = "done" =>
                /\ pret[c] = Workdir(target)
                /\ \A d \in Callers :
                    (ppc[d] = "done" /\ ~pargs[d].force_create) =>
                        pret[d] = pret[c]

\* C9's case: both callers called with force_create=False on a workspace
\* that was well-formed from the start, and both returned.
C9_Witness ==
    /\ \A c \in Callers :
        ppc[c] = "done" /\ ~pargs[c].force_create /\ pseen[c].wellformed
    /\ mutators = {}

\* C10: prepare(target, force_create=False) on an existing root with an
\* expected entry that is not a directory raises an error that names the
\* first such entry in the order of the fields, and changes nothing.
C10_FirstMissingIdentified ==
    \A c \in Callers :
        (PrepEnded(c) /\ ~pargs[c].force_create /\ pseen[c].exists
            /\ ~WellFormed) =>
            /\ ppc[c] = "raised"
            /\ pexc[c].args = <<Workdir(target)[pidx[c]]>>
            /\ c \notin mutators

-----------------------------------------------------------------------------
(* Claims about the supervisor                                             *)

\* C4: when SIGTERM is delivered while the supervisor is blocked in the wait
\* on a running child, the wait is left at once, whether or not the child
\* exits; and once the supervisor has exited, a kill request for the child's
\* pid has been issued, through sudo exactly when the child was spawned
\* through sudo.
C4_SigtermKillsAndExits ==
    (sig # NoSig /\ sig.at = "wait" /\ sig.child = "running") =>
        /\ rpc \in {"kill", "exited"}
        /\ rpc = "exited" =>
            /\ kills # <<>>
            /\ kills[Len(kills)].pid = Len(spawned)
            /\ kills[Len(kills)].sudo = child.sudo

\* C5: a run call whose list names a workflow whose directory is missing or
\* has no executable raises ValueError without having created a child
\* process (no SIGTERM, no failure of Popen or setfacl and no workflow with
\* a non-zero exit code interfering).
C5_MissingExecutableSpawnsNothing ==
    (/\ RunEnded
     /\ sig = NoSig
     /\ rexc \notin {"OSError", "RuntimeError"}
     /\ \E i \in 1..Len(wfs) : srcdir[wfs[i]] \in {"missing", "noexec"}) =>
        /\ rpc = "raised"
        /\ rexc = "ValueError"
        /\ spawned = <<>>

-----------------------------------------------------------------------------
(* Claims about the command line                                           *)

\* C6: a delivery into the drop location is attempted only after the
\* workflow run of the workspace completed with exit code 0; in particular
\* no delivery is ever attempted for a workspace whose run ended with a
\* non-zero exit code.
C6_NoDeliveryAfterFailedRun == "failed" \notin deliveries

-----------------------------------------------------------------------------
(* Claims about the layout of the workspace                                *)

\* The directory layout the specification fixes under the workspace root.
DirectoryLayout ==
    {"data", "ref", "src", "var", "result", "run", "etc", "logs", "archive",
     "usr"}

\* The fields of a returned workdir after base.
Subdirectories(workdir) == {workdir[i] : i \in 2..Len(workdir)}

\* C11: a prepare call that found nothing at the target and returned has
\* created the root and exactly the directories data, ref, src, var, result,
\* run, etc, logs, archive and usr below it, and the workdir it returns
\* names exactly those paths.
C11_PrepareCreatesLayout ==
    \A c \in Callers :
        (ppc[c] = "done" /\ ~pseen[c].exists) =>
            /\ pret[c][1] = target
            /\ IsDir(target)
            /\ Subdirectories(pret[c]) =
                   {Append(target, name) : name \in DirectoryLayout}
            /\ \A path \in Subdirectories(pret[c]) : IsDir(path)

-----------------------------------------------------------------------------
(* Claims about the daemon                                                 *)

\* func was called in the detached process of launcher l.
FuncCalled(l) == dpc[l] \in {"func", "return"} \/ funcOutcome[l] # ""

\* C12: a daemonize call made while the pidfile exists fails before any
\* detachment: no fork succeeds, no session is created, func is not called.
C12_ExistingPidfileNoDetach ==
    \A l \in Launchers :
        atCall[l] =>
            /\ forks[l] = 0
            /\ ~sid[l]
            /\ ~FuncCalled(l)

\* C13: a detached process whose exclusive creation of the pidfile failed
\* exits with status 1 without calling func, and of the launchers on one
\* pidfile path at most one is between the call of func and its exit, the
\* one whose pid the pidfile holds.
C13_PidfileExclusive ==
    /\ \A l \in Launchers :
        (forks[l] = 2 /\ dpc[l] # "pidfile" /\ ~registered[l]) =>
            /\ dpc[l] = "exited"
            /\ status[l]["daemon"] = 1
            /\ ~FuncCalled(l)
    /\ \A l, m \in Launchers :
        (dpc[l] \in {"func", "return"} /\ dpc[m] \in {"func", "return"}) =>
            l = m
    /\ \A l \in Launchers :
        dpc[l] \in {"func", "return"} => pidfile.owner = l

\* Both launchers passed the check of validate_args; one runs func, the
\* other failed to create the pidfile and has exited.
C13_Witness ==
    /\ dvia["d1"] = "main" /\ dvia["d2"] = "main"
    /\ dpc["d1"] = "func"
    /\ forks["d2"] = 2 /\ dpc["d2"] = "exited" /\ ~registered["d2"]

\* C14: while func runs the pidfile holds the pid of the daemon that runs
\* it, and once that daemon has exited (func returned, raised an Exception
\* that was caught, or raised SystemExit) its pidfile is gone, so that a
\* later launch is not refused.
C14_PidfileLifetime ==
    \A l \in Launchers :
        /\ dpc[l] \in {"func", "return"} =>
               pidfile = [owner |-> l, proc |-> "daemon"]
        /\ (dpc[l] = "exited" /\ funcOutcome[l] # "") =>
               /\ pidfile.owner # l
               /\ (\A m \in Launchers : dpc[m] \in {"idle", "exited"}) =>
                      pidfile = NoPidfile

\* The daemon of d1 has left func by SystemExit and has exited; d2, launched
\* on the same pidfile path, runs func.
C14_Witness ==
    /\ dpc["d1"] = "exited" /\ funcOutcome["d1"] = "SystemExit"
    /\ dpc["d2"] = "func" /\ dvia["d2"] = "main"

\* C15: an Exception raised by func is logged in the detached process, the
\* parent has exited with 0 before func was called, and the detached process
\* does not report a successful run afterwards.
C15_FuncErrorOnlyLogged ==
    \A l \in Launchers :
        funcOutcome[l] = "Exception" =>
            /\ "Unexpected error. Daemon is stopping" \in dlog[l]
            /\ status[l]["parent"] = 0
            /\ "qproject finished succesfully" \notin dlog[l]

\* C16: when one of the two forks of daemonize fails, the process that
\* called daemonize exits with a non-zero status and func is never called.
C16_ForkFailureFatal ==
    \A l \in Launchers :
        (dpc[l] = "exited" /\ forks[l] < 2) =>
            /\ status[l]["parent"] >= 1
            /\ ~FuncCalled(l)
            /\ ~registered[l]

-----------------------------------------------------------------------------
(* Claims about the life of a supervised execution                         *)

\* The supervisor reports the completion of the child: run raises
\* RuntimeError, goes on to the next workflow, or returns.
ReportsCompleted ==
    \/ rexc # "RuntimeError" /\ rexc' = "RuntimeError"
    \/ ridx' = ridx + 1
    \/ rpc # "returned" /\ rpc' = "returned" /\ wfs # <<>>

\* C17: a supervised execution goes from not started to running to
\* completed, killed or failed to spawn, and nowhere else: once run has
\* ended nothing of it changes (a SIGTERM can still end the process); a child is spawned only at the Popen of a
\* workflow that has no child yet; a completion is reported only when the
\* child of that workflow has exited, with RuntimeError exactly for a
\* non-zero code; and a kill is requested only for a child that was spawned,
\* by a supervisor that then exits.
C17_Lifecycle ==
    [][/\ RunEnded => /\ UNCHANGED <<ridx, rexc, spawned, kills>>
                       /\ (rpc' = rpc \/ sig' # sig)
       /\ spawned' # spawned =>
              /\ rpc = "popen" /\ rpc' = "spawned"
              /\ Len(spawned) = ridx - 1
              /\ spawned' = Append(spawned, wfs[ridx])
              /\ child'.state = "running"
       /\ ReportsCompleted =>
              /\ rpc = "wait"
              /\ child.wf = wfs[ridx] /\ Len(spawned) = ridx
              /\ child.state = "exited"
              /\ (rexc' = "RuntimeError") = (child.code # 0)
       /\ kills' # kills =>
              /\ rpc = "kill" /\ rpc' = "exited"
              /\ Len(spawned) = ridx
              /\ kills' = Append(kills, kills'[Len(kills')])
              /\ kills'[Len(kills')].pid = ridx
      ]_vars

\* The second workflow was killed on SIGTERM after the first had completed.
C17_Witness ==
    /\ rmod = "projects"
    /\ rpc = "exited"
    /\ Len(spawned) = 2
    /\ Len(kills) = 1

\* C18: run spawns the workflows of its list one after another in the order
\* of the list: a workflow is spawned only when every workflow before it was
\* spawned and the one right before it has exited with code 0, so nothing
\* is spawned after a workflow that exited non-zero, for which run raises
\* RuntimeError, and nothing is spawned twice.
C18_SequentialInOrder ==
    /\ Len(spawned) <= Len(wfs)
    /\ \A i \in 1..Len(spawned) : spawned[i] = wfs[i]
    /\ Len(spawned) \in {ridx - 1, ridx}
    /\ Len(spawned) = ridx => child.wf = wfs[ridx]
    /\ (Len(spawned) = ridx - 1 /\ ridx > 1) =>
           /\ child.wf = wfs[ridx - 1]
           /\ child.state = "exited"
           /\ child.code = 0
    /\ (child.state = "exited" /\ child.code # 0) =>
           /\ Len(spawned) = ridx
           /\ rpc \in {"spawned", "wait", "kill", "raised", "exited",
                      "terminated"}
           /\ rpc = "raised" => rexc = "RuntimeError"

\* Both workflows of a list were run to the end, the second one failed.
C18_Witness ==
    /\ wfs = <<"w2", "w1">>
    /\ spawned = wfs
    /\ rpc = "raised" /\ rexc = "RuntimeError"

-----------------------------------------------------------------------------
(* Claims about invocations sharing a workspace                            *)

\* C19: however run invocations on one workspace interleave, at most one of
\* their child processes is running at any time.
C19_OneRunningChild ==
    \A i, j \in Invocations :
        (ichild[i].state = "running" /\ ichild[j].state = "running") => i = j

-----------------------------------------------------------------------------
(* Claims about what reaches the destination                               *)

\* The directories above p below the source root.
Ancestors(p) == {SubSeq(p, 1, i) : i \in 1..(Len(p) - 1)}

\* C20: at every moment of a copy of either module, and after it, whether
\* it returned or raised, every file in the destination is a file of the
\* source whose opened handle is owned by userid and whose directories
\* below the source root are all directories owned by userid.
C20_OnlyOwnedFilesReachDest ==
    \A f \in DOMAIN destFiles :
        /\ f \in DOMAIN tree
        /\ tree[f].kind \in {"file", "linkf"}
        /\ tree[f].towner = userid
        /\ \A q \in Ancestors(f) :
            /\ q \in DOMAIN tree
            /\ tree[q].kind = "dir"
            /\ tree[q].towner = userid

\* A copy of utils.copytree_owner has returned: a file below an owned
\* directory is in the destination, a file of another owner was skipped.
C20_Witness ==
    /\ policy = "Skip"
    /\ cpc = "done"
    /\ \E f \in DOMAIN destFiles : Len(f) = 2
    /\ \E g \in DOMAIN tree :
        /\ tree[g].kind = "file"
        /\ tree[g].towner # userid
        /\ g \notin DOMAIN destFiles

\* C21: whenever a copy of either module writes a file into the
\* destination, the directory the file is written into is in the
\* destination before that step, made by an os.mkdir(..., 0o700) of an
\* earlier step (or by commit, for the destination itself); directories of
\* the destination are never taken away again.
C21_ParentMadeBeforeWrite ==
    [][/\ \A f \in (DOMAIN destFiles') \ (DOMAIN destFiles) :
              /\ Parent(f) \in destDirs
              /\ Parent(f) = cur
       /\ destDirs \subseteq destDirs'
       /\ \A d \in destDirs' \ destDirs : Parent(d) \in destDirs
      ]_vars

\* A file two directories below the source root was written.
C21_Witness ==
    /\ policy = "Skip"
    /\ \E f \in DOMAIN destFiles :
        /\ Len(f) = 3
        /\ Parent(f) \in destDirs
        /\ Parent(Parent(f)) \in destDirs

-----------------------------------------------------------------------------
(* Claims about the delivery                                               *)

\* C22: a delivery never overwrites what is at a destination path already:
\* a dropbox directory or a file below it that another process made stays
\* as it is, whenever it appeared.
C22_NeverOverwrites ==
    [][/\ dbox = "foreign" => dbox' = "foreign"
       /\ \A f \in Names : dfile[f] = "foreign" => dfile'[f] = "foreign"
      ]_vars

-----------------------------------------------------------------------------
(* Claims about clone_workflows                                            *)

\* C23: a clone_workflows call whose list holds a workflow with an invalid
\* name or with a target that exists fails with ValueError without having
\* cloned any repository of the list.
C23_ValidationBeforeSideEffects ==
    (clpc = "raised" /\ clexc = "ValueError") => cloned = <<>>

-----------------------------------------------------------------------------
(* Claims about the exit code                                              *)

-----------------------------------------------------------------------------
(* Claims about what the supervisor requires and leaves behind             *)

\* C25: a child process is spawned only for a workflow whose config file
\* run/<workflow>.json exists.
C25_SpawnOnlyWithConfig ==
    \A i \in 1..Len(spawned) : spawned[i] \in config

\* C26: once run has returned or raised, the SIGTERM disposition of the
\* process is the one from before the call again.
C26_HandlerRestored ==
    rpc \in {"returned", "raised"} => handler = "default"

\* C27: when the supervisor has ended because of a SIGTERM that its handler
\* took while a spawned child was running, a kill request for that child
\* has been issued.
C27_NoOrphanedChild ==
    (/\ rpc = "exited"
     /\ sig # NoSig
     /\ sig.handler = "sigterm_handler"
     /\ sig.child = "running") =>
        /\ kills # <<>>
        /\ kills[Len(kills)].pid = Len(spawned)

-----------------------------------------------------------------------------
(* Claims about the removal of the pidfile                                 *)

\* remove_pid is registered by launcher l in this step.
Registers(l) == registered'[l] /\ ~registered[l]

\* The pidfile is removed in this step.
PidfileRemoved == pidfile # NoPidfile /\ pidfile' = NoPidfile

\* C28: remove_pid is registered only in the step in which the process
\* creates the pidfile exclusively, a pidfile is removed only by the exit of
\* the process that created it, and while a daemon is in func after another
\* one was refused and has exited, the pidfile of the running daemon exists.
C28_RefusedNeverRemoves ==
    /\ [][\A l \in Launchers :
            Registers(l) =>
                /\ pidfile = NoPidfile
                /\ pidfile' = [owner |-> l, proc |-> "daemon"]]_vars
    /\ [][PidfileRemoved =>
            \E l \in Launchers :
                /\ pidfile.owner = l
                /\ registered[l]
                /\ dpc[l] # "exited" /\ dpc'[l] = "exited"]_vars
    /\ [](\A l, m \in Launchers :
            (/\ dpc[l] \in {"func", "return"}
             /\ forks[m] = 2 /\ dpc[m] = "exited" /\ ~registered[m]) =>
                pidfile = [owner |-> l, proc |-> "daemon"])

\* d1 runs func and holds the pidfile; d2, which called daemonize when the
\* pidfile was there, was refused in write_pidfile and has exited.
C28_Witness ==
    /\ dpc["d1"] = "func" /\ pidfile.owner = "d1"
    /\ dvia["d2"] = "daemonize" /\ atCall["d2"]
    /\ forks["d2"] = 2 /\ dpc["d2"] = "exited" /\ status["d2"]["daemon"] = 1

====
